---- MODULE Spec2Model ----
(***************************************************************************)
(* Jolt codec of neo4j-python-driver: JoltEncoder (neo4j/jolt/encoding.py) *)
(* and JoltDecoder (neo4j/jolt/decoding.py).                               *)
(*                                                                         *)
(* Representation.                                                         *)
(*   - A Python str is a sequence of one-character strings, so that        *)
(*     int(), float(), startswith() and slicing can be computed.           *)
(*   - A Python int is unbounded; it is held in two limbs [hi, lo] with    *)
(*     value hi * Base + lo and 0 <= lo < Base, because the band limits    *)
(*     -2^31 and 2^31-1 are exactly the limits of the checker's integers.  *)
(*   - A finite Python float is held by its shortest decimal form (what    *)
(*     repr() prints): sign, whole part, fraction digits.  Floats whose    *)
(*     repr() uses an exponent (|x| >= 1e16 or 0 < |x| < 1e-4) are outside  *)
(*     the inputs.                                                         *)
(*   - Every Python value is a record [kind, val]; a dict is a sequence of *)
(*     <<key, value>> pairs in insertion order.                            *)
(*   - A JSON document is the tree json.dumps prints and json.loads reads: *)
(*     [kind, val] with kinds jnull, jtrue, jfalse, jnum (the number's     *)
(*     text), jstr, jarr, jobj.                                            *)
(***************************************************************************)
EXTENDS Integers, Sequences, FiniteSets, TLC

VARIABLES value, always_safe, doc, result, graph, pc,
          session, results, request, ret, server

\* the codec
jvars == <<value, always_safe, doc, result, graph, pc>>

\* the HTTP session, the results it has handed out, the last request it has
\* sent, the outcome of the last call, and the server
hvars == <<session, results, request, ret, server>>

vars == <<jvars, hvars>>

(***************************************************************************)
(* Python int: two limbs.                                                  *)
(***************************************************************************)
Base == 2^16

Big(h, l) == [hi |-> h, lo |-> l]

Small(n) == Big(0, n)

IntLess(a, b) == a.hi < b.hi \/ (a.hi = b.hi /\ a.lo < b.lo)

IntLeq(a, b) == a = b \/ IntLess(a, b)

IntNeg(a) == IF a.lo = 0 THEN Big(-a.hi, 0) ELSE Big(-a.hi - 1, Base - a.lo)

\* quotient and remainder of a non-negative int by ten
DivMod10(a) ==
    LET t == (a.hi % 10) * Base + a.lo
    IN  [q |-> Big(a.hi \div 10, t \div 10), r |-> t % 10]

\* a * 10 + d for a non-negative int
MulAdd10(a, d) ==
    LET t == a.lo * 10 + d
    IN  Big(a.hi * 10 + (t \div Base), t % Base)

DigitChars == <<"0", "1", "2", "3", "4", "5", "6", "7", "8", "9">>

IsDigit(c) == \E i \in 1..10 : DigitChars[i] = c

DigitVal(c) == (CHOOSE i \in 1..10 : DigitChars[i] = c) - 1

RECURSIVE Digits(_)
Digits(a) ==
    IF a = Big(0, 0) THEN <<>>
    ELSE LET d == DivMod10(a) IN Append(Digits(d.q), DigitChars[d.r + 1])

\* str(o) of a Python int
IntStr(a) ==
    IF a = Big(0, 0) THEN <<"0">>
    ELSE IF a.hi < 0 THEN <<"-">> \o Digits(IntNeg(a))
    ELSE Digits(a)

RECURSIVE DigitsVal(_, _)
DigitsVal(s, acc) ==
    IF s = <<>> THEN acc ELSE DigitsVal(Tail(s), MulAdd10(acc, DigitVal(Head(s))))

AllDigits(s) == \A i \in 1..Len(s) : IsDigit(s[i])

RECURSIVE LStrip(_)
LStrip(s) == IF s # <<>> /\ Head(s) = " " THEN LStrip(Tail(s)) ELSE s

RECURSIVE RStrip(_)
RStrip(s) ==
    IF s # <<>> /\ s[Len(s)] = " " THEN RStrip(SubSeq(s, 1, Len(s) - 1)) ELSE s

Strip(s) == RStrip(LStrip(s))

(***************************************************************************)
(* Python float, by its shortest decimal form.                             *)
(***************************************************************************)
Fin(n, w, f) == [cls |-> "fin", neg |-> n, whole |-> w, frac |-> f]

NaN == [cls |-> "nan", neg |-> FALSE, whole |-> Big(0, 0), frac |-> <<"0">>]

POSITIVE_INFINITY == [cls |-> "inf", neg |-> FALSE, whole |-> Big(0, 0), frac |-> <<"0">>]

NEGATIVE_INFINITY == [cls |-> "ninf", neg |-> TRUE, whole |-> Big(0, 0), frac |-> <<"0">>]

WholeStr(w) == IF w = Big(0, 0) THEN <<"0">> ELSE Digits(w)

\* str(o) of a Python float
FloatStr(x) ==
    CASE x.cls = "nan" -> <<"n", "a", "n">>
      [] x.cls = "inf" -> <<"i", "n", "f">>
      [] x.cls = "ninf" -> <<"-", "i", "n", "f">>
      [] OTHER -> (IF x.neg THEN <<"-">> ELSE <<>>) \o WholeStr(x.whole) \o <<".">> \o x.frac

\* float.__repr__ as json.encoder prints it (allow_nan is on by default)
JSONFloatStr(x) ==
    CASE x.cls = "nan" -> <<"N", "a", "N">>
      [] x.cls = "inf" -> <<"I", "n", "f", "i", "n", "i", "t", "y">>
      [] x.cls = "ninf" -> <<"-", "I", "n", "f", "i", "n", "i", "t", "y">>
      [] OTHER -> FloatStr(x)

is_integer(x) == x.cls = "fin" /\ x.frac = <<"0">>

(***************************************************************************)
(* Python values.                                                          *)
(***************************************************************************)
None == [kind |-> "null", val |-> <<>>]

PyBool(b) == [kind |-> "bool", val |-> b]

PyInt(a) == [kind |-> "int", val |-> a]

PyFloat(x) == [kind |-> "float", val |-> x]

PyStr(s) == [kind |-> "str", val |-> s]

ByteArray(b) == [kind |-> "bytes", val |-> b]

List(s) == [kind |-> "list", val |-> s]

Dict(m) == [kind |-> "map", val |-> m]

Point(srid, coords) == [kind |-> "point", val |-> [srid |-> srid, coords |-> coords]]

Temporal(c, iso) == [kind |-> "temporal", val |-> [cls |-> c, iso |-> iso]]

Node(id, labels, props) ==
    [kind |-> "node", val |-> [id |-> id, labels |-> labels, props |-> props]]

Relationship(id, type, props, s, e) ==
    [kind |-> "rel",
     val |-> [id |-> id, type |-> type, props |-> props, start_node |-> s, end_node |-> e]]

Path(s, rels) == [kind |-> "path", val |-> [start_node |-> s, relationships |-> rels]]

Error(name) == [kind |-> "error", val |-> name]

IsError(v) == v.kind = "error"

\* dict: lookup, membership and d.update({k: v})
Keys(m) == {m[i][1] : i \in 1..Len(m)}

Get(m, k) == m[CHOOSE i \in 1..Len(m) : m[i][1] = k][2]

Update(m, k, v) ==
    IF k \in Keys(m)
    THEN [i \in 1..Len(m) |-> IF m[i][1] = k THEN <<k, v>> ELSE m[i]]
    ELSE Append(m, <<k, v>>)

(***************************************************************************)
(* JSON documents.                                                         *)
(***************************************************************************)
JNull == [kind |-> "jnull", val |-> <<>>]

JTrue == [kind |-> "jtrue", val |-> <<>>]

JFalse == [kind |-> "jfalse", val |-> <<>>]

JNum(s) == [kind |-> "jnum", val |-> s]

JStr(s) == [kind |-> "jstr", val |-> s]

JArr(s) == [kind |-> "jarr", val |-> s]

JObj(m) == [kind |-> "jobj", val |-> m]

(***************************************************************************)
(* JoltEncoder (neo4j/jolt/encoding.py).  The parameter safe is            *)
(* self.always_safe.                                                       *)
(***************************************************************************)
\* the lower limit taken one too low
Z_LO_low == Big(-(2^15) - 1, Base - 1)

Z_LO == Big(-(2^15), 0)

Z_HI == Big(2^15 - 1, Base - 1)

\* a <= x and x <= b for an int and a finite float
IntLeqFloat(a, x) ==
    IF x.neg
    THEN IF x.frac = <<"0">> THEN IntLeq(x.whole, IntNeg(a)) ELSE IntLess(x.whole, IntNeg(a))
    ELSE IntLeq(a, x.whole)

FloatLeqInt(x, b) ==
    IF x.neg
    THEN IntLeq(IntNeg(b), x.whole)
    ELSE IF x.frac = <<"0">> THEN IntLeq(x.whole, b) ELSE IntLess(x.whole, b)

\* the lower limit itself taken as outside the band (<= for <)
jolt_int_leq(safe, o) ==
    IF safe \/ IntLeq(o.val, Z_LO) \/ IntLess(Z_HI, o.val)
    THEN Dict(<< <<(<<"Z">>), PyStr(IntStr(o.val))>> >>)
    ELSE o

jolt_int(safe, o) ==
    IF safe \/ IntLess(o.val, Z_LO) \/ IntLess(Z_HI, o.val)
    THEN Dict(<< <<(<<"Z">>), PyStr(IntStr(o.val))>> >>)
    ELSE o

\* the test o.is_integer() left out
jolt_float_any(safe, o) ==
    CASE o.val.cls = "nan" -> Dict(<< <<(<<"R">>), PyStr(<<"N", "a", "N">>)>> >>)
      [] o.val.cls = "inf" ->
            Dict(<< <<(<<"R">>), PyStr(<<"I", "n", "f", "i", "n", "i", "t", "y">>)>> >>)
      [] o.val.cls = "ninf" ->
            Dict(<< <<(<<"R">>), PyStr(<<"-", "I", "n", "f", "i", "n", "i", "t", "y">>)>> >>)
      [] OTHER ->
            IF safe \/ (IntLeqFloat(Z_LO, o.val) /\ FloatLeqInt(o.val, Z_HI))
            THEN Dict(<< <<(<<"R">>), PyStr(FloatStr(o.val))>> >>)
            ELSE o

jolt_float(safe, o) ==
    CASE o.val.cls = "nan" -> Dict(<< <<(<<"R">>), PyStr(<<"N", "a", "N">>)>> >>)
      [] o.val.cls = "inf" ->
            Dict(<< <<(<<"R">>), PyStr(<<"I", "n", "f", "i", "n", "i", "t", "y">>)>> >>)
      [] o.val.cls = "ninf" ->
            Dict(<< <<(<<"R">>), PyStr(<<"-", "I", "n", "f", "i", "n", "i", "t", "y">>)>> >>)
      [] OTHER ->
            IF safe \/ (is_integer(o.val) /\ IntLeqFloat(Z_LO, o.val) /\ FloatLeqInt(o.val, Z_HI))
            THEN Dict(<< <<(<<"R">>), PyStr(FloatStr(o.val))>> >>)
            ELSE o

jolt_temporal(o) == Dict(<< <<(<<"T">>), PyStr(o.val.iso)>> >>)

jolt_spatial_point(o) ==
    Dict(<< <<(<<"@">> \o IntStr(o.val.srid)),
              Dict(<< <<(<<"P", "O", "I", "N", "T">>), List(o.val.coords)>> >>)>> >>)

HexChars == <<"0", "1", "2", "3", "4", "5", "6", "7", "8", "9", "A", "B", "C", "D", "E", "F">>

RECURSIVE HexJoin(_)
HexJoin(b) ==
    IF b = <<>> THEN <<>>
    ELSE <<HexChars[(Head(b) \div 16) + 1], HexChars[(Head(b) % 16) + 1]>> \o HexJoin(Tail(b))

jolt_byte_array(o) == Dict(<< <<(<<"#">>), PyStr(HexJoin(o.val))>> >>)

\* list(o): the elements not passed through jolt
jolt_list_raw(safe, o) == o

RECURSIVE jolt(_, _)
RECURSIVE jolt_list(_, _)
RECURSIVE jolt_raw_dict(_, _)
RECURSIVE jolt_dict(_, _)

jolt(safe, o) ==
    CASE o.kind \in {"null", "bool"} -> o
      [] o.kind = "int" -> jolt_int(safe, o)
      [] o.kind = "float" -> jolt_float(safe, o)
      [] o.kind = "list" -> jolt_list(safe, o)
      [] o.kind = "map" -> jolt_dict(safe, o)
      [] o.kind = "point" -> jolt_spatial_point(o)
      [] OTHER -> o

jolt_list(safe, o) == List([i \in 1..Len(o.val) |-> jolt(safe, o.val[i])])

\* the properties put through jolt_dict: wrapped in {} when one entry or safe
jolt_raw_dict_wrapped(safe, o) ==
    LET items == IF o.kind = "map" THEN o.val ELSE o.val.props
        raw == Dict([i \in 1..Len(items) |-> <<items[i][1], jolt(safe, items[i][2])>>])
    IN  IF safe \/ Len(items) = 1 THEN Dict(<< <<(<<"{", "}">>), raw>> >>) ELSE raw

\* o is a dict, or a node or relationship, whose items() are its properties
jolt_raw_dict(safe, o) ==
    LET items == IF o.kind = "map" THEN o.val ELSE o.val.props
    IN  Dict([i \in 1..Len(items) |-> <<items[i][1], jolt(safe, items[i][2])>>])

\* the empty dict wrapped too (<= 1 for == 1)
jolt_dict_leq(safe, o) ==
    IF safe \/ Len(o.val) <= 1
    THEN Dict(<< <<(<<"{", "}">>), jolt_raw_dict(safe, o)>> >>)
    ELSE jolt_raw_dict(safe, o)

jolt_dict(safe, o) ==
    IF safe \/ Len(o.val) = 1
    THEN Dict(<< <<(<<"{", "}">>), jolt_raw_dict(safe, o)>> >>)
    ELSE jolt_raw_dict(safe, o)

StrList(labels) == List([i \in 1..Len(labels) |-> PyStr(labels[i])])

\* the one-entry dict {str(o.id): [labels, properties]}
jolt_raw_node_2(safe, o) ==
    << <<IntStr(o.val.id),
         List(<<jolt_list(safe, StrList(o.val.labels)), jolt_raw_dict(safe, o)>>)>> >>

jolt_node(safe, o) == Dict(<< <<(<<"G">>), Dict(jolt_raw_node_2(safe, o))>> >>)

\* [type, properties, str(start id), str(end id)]
RelEntry(safe, r) ==
    List(<<PyStr(r.val.type), jolt_raw_dict(safe, r),
           PyStr(IntStr(r.val.start_node.val.id)), PyStr(IntStr(r.val.end_node.val.id))>>)

jolt_relationship(safe, o) ==
    Dict(<< <<(<<"G">>), Dict(<< <<IntStr(o.val.id), RelEntry(safe, o)>> >>)>> >>)

\* the next node always taken to be r.end_node
PathStep_end(safe, st, r) ==
    LET last == r.val.end_node
        n == jolt_raw_node_2(safe, last)
    IN  [last_node |-> last,
         nodes |-> Update(st.nodes, n[1][1], n[1][2]),
         relationships |-> Update(st.relationships, IntStr(r.val.id), RelEntry(safe, r)),
         sequence |-> Append(st.sequence, PyStr(IntStr(r.val.id)))]

\* nodes.update(...) left out
PathStep_forget(safe, st, r) ==
    LET last == IF r.val.start_node = st.last_node THEN r.val.end_node ELSE r.val.start_node
    IN  [last_node |-> last,
         nodes |-> st.nodes,
         relationships |-> Update(st.relationships, IntStr(r.val.id), RelEntry(safe, r)),
         sequence |-> Append(st.sequence, PyStr(IntStr(r.val.id)))]

\* one turn of the loop of jolt_path over relationship r
PathStep(safe, st, r) ==
    LET last == IF r.val.start_node = st.last_node THEN r.val.end_node ELSE r.val.start_node
        n == jolt_raw_node_2(safe, last)
    IN  [last_node |-> last,
         nodes |-> Update(st.nodes, n[1][1], n[1][2]),
         relationships |-> Update(st.relationships, IntStr(r.val.id), RelEntry(safe, r)),
         sequence |-> Append(st.sequence, PyStr(IntStr(r.val.id)))]

RECURSIVE PathLoop(_, _, _)
PathLoop(safe, st, rels) ==
    IF rels = <<>> THEN st ELSE PathLoop(safe, PathStep(safe, st, Head(rels)), Tail(rels))

jolt_path(safe, o) ==
    LET st0 == [last_node |-> o.val.start_node,
                nodes |-> jolt_raw_node_2(safe, o.val.start_node),
                relationships |-> <<>>,
                sequence |-> <<PyStr(IntStr(o.val.start_node.val.id))>>]
        st == PathLoop(safe, st0, o.val.relationships)
    IN  Dict(<< <<(<<"G">>),
                  List(<<Dict(st.nodes), Dict(st.relationships), List(st.sequence)>>)>> >>)

\* JSONEncoder.default: the values json cannot print itself
default(safe, o) ==
    CASE o.kind = "bytes" -> jolt_byte_array(o)
      [] o.kind = "node" -> jolt_node(safe, o)
      [] o.kind = "rel" -> jolt_relationship(safe, o)
      [] o.kind = "path" -> jolt_path(safe, o)
      [] o.kind = "temporal" -> jolt_temporal(o)

\* JSONEncoder.encode of the standard library: prints a value, calling default
\* for every value it cannot print
RECURSIVE JSONEncode(_, _)
JSONEncode(safe, o) ==
    CASE o.kind = "null" -> JNull
      [] o.kind = "bool" -> IF o.val THEN JTrue ELSE JFalse
      [] o.kind = "int" -> JNum(IntStr(o.val))
      [] o.kind = "float" -> JNum(JSONFloatStr(o.val))
      [] o.kind = "str" -> JStr(o.val)
      [] o.kind = "list" -> JArr([i \in 1..Len(o.val) |-> JSONEncode(safe, o.val[i])])
      [] o.kind = "point" ->
            JArr([i \in 1..Len(o.val.coords) |-> JSONEncode(safe, o.val.coords[i])])
      [] o.kind = "map" ->
            JObj([i \in 1..Len(o.val) |-> <<o.val[i][1], JSONEncode(safe, o.val[i][2])>>])
      [] OTHER -> JSONEncode(safe, default(safe, o))

encode(safe, o) == JSONEncode(safe, jolt(safe, o))

(***************************************************************************)
(* Python built-ins the decoder calls: int(), float(), int(s, 16), dict(). *)
(* A raised exception is the value Error(<name>).                          *)
(***************************************************************************)
TypeError == Error("TypeError")

ValueError == Error("ValueError")

OverflowError == Error("OverflowError")

AttributeError == Error("AttributeError")

JoltDecodeError == Error("JoltDecodeError")

\* int(s) of a str: surrounding blanks, an optional sign, decimal digits
ParseInt(s) ==
    LET t == Strip(s)
        signed == t # <<>> /\ Head(t) \in {"+", "-"}
        body == IF signed THEN Tail(t) ELSE t
    IN  IF body = <<>> \/ ~AllDigits(body) THEN ValueError
        ELSE LET m == DigitsVal(body, Big(0, 0))
             IN  PyInt(IF signed /\ Head(t) = "-" THEN IntNeg(m) ELSE m)

LowerChar(c) ==
    CASE c = "N" -> "n" [] c = "A" -> "a" [] c = "I" -> "i" [] c = "F" -> "f"
      [] c = "T" -> "t" [] c = "Y" -> "y" [] OTHER -> c

Lower(s) == [i \in 1..Len(s) |-> LowerChar(s[i])]

RECURSIVE DropTrailingZeros(_)
DropTrailingZeros(f) ==
    IF f # <<>> /\ f[Len(f)] = "0" THEN DropTrailingZeros(SubSeq(f, 1, Len(f) - 1)) ELSE f

\* index of the first "." of s, or 0
DotAt(s) == IF \E i \in 1..Len(s) : s[i] = "." THEN CHOOSE i \in 1..Len(s) :
                s[i] = "." /\ \A j \in 1..(i - 1) : s[j] # "." ELSE 0

\* float(s) of a str without exponent: blanks, sign, nan / inf / infinity in
\* any case, or digits with an optional fraction
ParseFloat(s) ==
    LET t == Strip(s)
        signed == t # <<>> /\ Head(t) \in {"+", "-"}
        neg == signed /\ Head(t) = "-"
        body == IF signed THEN Tail(t) ELSE t
        d == DotAt(body)
        w == IF d = 0 THEN body ELSE SubSeq(body, 1, d - 1)
        f == IF d = 0 THEN <<>> ELSE SubSeq(body, d + 1, Len(body))
        frac == DropTrailingZeros(f)
    IN  CASE Lower(body) = <<"n", "a", "n">> -> PyFloat(NaN)
          [] Lower(body) \in {<<"i", "n", "f">>, <<"i", "n", "f", "i", "n", "i", "t", "y">>} ->
                PyFloat(IF neg THEN NEGATIVE_INFINITY ELSE POSITIVE_INFINITY)
          [] OTHER ->
                IF (w = <<>> /\ f = <<>>) \/ ~AllDigits(w) \/ ~AllDigits(f) THEN ValueError
                ELSE PyFloat(Fin(neg, DigitsVal(w, Big(0, 0)),
                                 IF frac = <<>> THEN <<"0">> ELSE frac))

\* the text of a bytearray of ASCII blanks, signs, dots and digits; <<"?">>
\* for any other content (which neither int() nor float() of digits accepts)
AsciiChar(b) ==
    CASE b = 32 -> " " [] b = 43 -> "+" [] b = 45 -> "-" [] b = 46 -> "."
      [] b \in 48..57 -> DigitChars[b - 47] [] OTHER -> "?"

AsciiText(bs) ==
    IF \E i \in 1..Len(bs) : AsciiChar(bs[i]) = "?" THEN <<"?">>
    ELSE [i \in 1..Len(bs) |-> AsciiChar(bs[i])]

\* int(v)
int(v) ==
    CASE v.kind = "str" -> ParseInt(v.val)
      [] v.kind = "int" -> v
      [] v.kind = "bool" -> PyInt(Small(IF v.val THEN 1 ELSE 0))
      [] v.kind = "float" ->
            CASE v.val.cls = "nan" -> ValueError
              [] v.val.cls \in {"inf", "ninf"} -> OverflowError
              [] OTHER -> PyInt(IF v.val.neg THEN IntNeg(v.val.whole) ELSE v.val.whole)
      [] v.kind = "bytes" -> ParseInt(AsciiText(v.val))
      [] v.kind \in {"null", "list", "map", "point", "temporal"} -> TypeError

\* float(v)
float(v) ==
    CASE v.kind = "str" -> ParseFloat(v.val)
      [] v.kind = "float" -> v
      [] v.kind = "int" ->
            PyFloat(IF v.val.hi < 0 THEN Fin(TRUE, IntNeg(v.val), <<"0">>)
                    ELSE Fin(FALSE, v.val, <<"0">>))
      [] v.kind = "bool" -> PyFloat(Fin(FALSE, Small(IF v.val THEN 1 ELSE 0), <<"0">>))
      [] v.kind = "bytes" /\ \A i \in 1..Len(v.val) : v.val[i] < 65 -> ParseFloat(AsciiText(v.val))
      [] v.kind \in {"null", "list", "map", "point", "temporal"} -> TypeError

\* the values Python can iterate over, and what iterating them yields
IsIterable(e) == e.kind \in {"list", "map", "str", "point", "bytes"}

Unpack(e) ==
    CASE e.kind = "list" -> e.val
      [] e.kind = "point" -> e.val.coords
      [] e.kind = "map" -> [i \in 1..Len(e.val) |-> PyStr(e.val[i][1])]
      [] e.kind = "str" -> [i \in 1..Len(e.val) |-> PyStr(<<e.val[i]>>)]
      [] e.kind = "bytes" -> [i \in 1..Len(e.val) |-> PyInt(Small(e.val[i]))]

LowerHexChars == <<"0", "1", "2", "3", "4", "5", "6", "7", "8", "9", "a", "b", "c", "d", "e", "f">>

IsHex(c) == \E i \in 1..16 : HexChars[i] = c \/ LowerHexChars[i] = c

HexVal(c) == (CHOOSE i \in 1..16 : HexChars[i] = c \/ LowerHexChars[i] = c) - 1

\* int(s, 16) of a piece of at most two characters: the octet, or -1 when
\* int() raises ValueError or the value is no octet
HexPiece(s) ==
    LET t == Strip(s)
        signed == t # <<>> /\ Head(t) \in {"+", "-"}
        body == IF signed THEN Tail(t) ELSE t
        m == IF Len(body) = 1 THEN HexVal(body[1]) ELSE 16 * HexVal(body[1]) + HexVal(body[2])
    IN  IF body = <<>> \/ \E i \in 1..Len(body) : ~IsHex(body[i]) THEN -1
        ELSE IF signed /\ Head(t) = "-" /\ m > 0 THEN -1
        ELSE m

\* the pieces v[x:(x + 2)] for x in range(0, len(v), 2)
RECURSIVE Pieces(_)
Pieces(s) ==
    IF s = <<>> THEN <<>>
    ELSE IF Len(s) = 1 THEN <<s>>
    ELSE <<SubSeq(s, 1, 2)>> \o Pieces(SubSeq(s, 3, Len(s)))

\* bytearray(int(v[x:(x + 2)], 16) for x in range(0, len(v), 2))
HexBytes(v) ==
    CASE v.kind = "str" ->
            LET ps == Pieces(v.val)
            IN  IF \E i \in 1..Len(ps) : HexPiece(ps[i]) = -1 THEN ValueError
                ELSE ByteArray([i \in 1..Len(ps) |-> HexPiece(ps[i])])
      [] v.kind \in {"list", "map", "bytes", "point"} ->
            IF Len(Unpack(v)) = 0 THEN ByteArray(<<>>) ELSE TypeError
      [] v.kind \in {"null", "bool", "int", "float", "temporal"} -> TypeError

Hashable(x) ==
    /\ x.kind \notin {"list", "map", "bytes"}
    /\ x.kind = "point" => \A i \in 1..Len(x.val.coords) :
                              x.val.coords[i].kind \notin {"list", "map", "bytes"}

\* a dict key that is no str is held as the pair <<"key", value>>
KeyOf(x) == IF x.kind = "str" THEN x.val ELSE <<"key", x>>

IsItem(e) == IsIterable(e) /\ Len(Unpack(e)) = 2 /\ Hashable(Unpack(e)[1])

\* the error dict() raises on an element that makes no item
ItemError(e) ==
    IF ~IsIterable(e) THEN TypeError
    ELSE IF Len(Unpack(e)) # 2 THEN ValueError
    ELSE TypeError

RECURSIVE DictOfItems(_, _)
DictOfItems(es, acc) ==
    IF es = <<>> THEN Dict(acc)
    ELSE IF ~IsItem(Head(es)) THEN ItemError(Head(es))
    ELSE LET kv == Unpack(Head(es))
         IN  DictOfItems(Tail(es), Update(acc, KeyOf(kv[1]), kv[2]))

\* dict(v)
dict(v) ==
    CASE v.kind = "map" -> v
      [] IsIterable(v) /\ v.kind # "map" -> DictOfItems(Unpack(v), <<>>)
      [] v.kind \in {"null", "bool", "int", "float", "temporal"} -> TypeError

(***************************************************************************)
(* JoltDecoder (neo4j/jolt/decoding.py).  A hook returns [val, graph]:     *)
(* the value it returns (or the error it raises) and self.graph after it.  *)
(* self.graph is "None" or "Graph" (a Graph, which no hook ever fills).    *)
(***************************************************************************)
Ret(v, g) == [val |-> v, graph |-> g]

IsDigits(s, i, j) == j <= Len(s) /\ \A n \in i..j : IsDigit(s[n])

\* ^(\d{4})-(\d{2})-(\d{2})$
DATE_ISO_PATTERN(s) ==
    Len(s) = 10 /\ IsDigits(s, 1, 4) /\ s[5] = "-" /\ IsDigits(s, 6, 7) /\ s[8] = "-"
    /\ IsDigits(s, 9, 10)

\* hours, then optional minutes, seconds and fraction: dd(:dd(:dd(\.d*)?)?)?
ClockPattern(s) ==
    /\ IsDigits(s, 1, 2)
    /\ \/ Len(s) = 2
       \/ /\ Len(s) >= 5 /\ s[3] = ":" /\ IsDigits(s, 4, 5)
          /\ \/ Len(s) = 5
             \/ /\ Len(s) >= 8 /\ s[6] = ":" /\ IsDigits(s, 7, 8)
                /\ \/ Len(s) = 8
                   \/ s[9] = "." /\ \A n \in 10..Len(s) : IsDigit(s[n])

\* a clock, then an optional offset [+-]dd:dd
TIME_ISO_PATTERN(s) ==
    \/ ClockPattern(s)
    \/ /\ Len(s) >= 8
       /\ LET o == Len(s) - 5
          IN  /\ s[o] \in {"+", "-"} /\ IsDigits(s, o + 1, o + 2) /\ s[o + 3] = ":"
              /\ IsDigits(s, o + 4, o + 5) /\ ClockPattern(SubSeq(s, 1, o - 1))

\* the date pattern, any one character, the time pattern
DATETIME_ISO_PATTERN(s) ==
    Len(s) >= 13 /\ DATE_ISO_PATTERN(SubSeq(s, 1, 10)) /\ TIME_ISO_PATTERN(SubSeq(s, 12, Len(s)))

\* P, then groups of digits and a designator letter, T between date and time
DURATION_ISO_PATTERN(s) ==
    /\ s # <<>> /\ s[1] = "P"
    /\ \A n \in 2..Len(s) : IsDigit(s[n]) \/ s[n] \in {"Y", "M", "D", "T", "H", "S", "."}
    /\ \A n \in 2..Len(s) : s[n] \in {"Y", "M", "D", "H", "S"} => IsDigit(s[n - 1])
    /\ (Len(s) > 1 => ~IsDigit(s[Len(s)]))

_temporal_hook(s) ==
    IF s.kind # "str" THEN TypeError
    ELSE CASE DATE_ISO_PATTERN(s.val) -> Temporal("Date", s.val)
           [] ~DATE_ISO_PATTERN(s.val) /\ TIME_ISO_PATTERN(s.val) -> Temporal("Time", s.val)
           [] ~DATE_ISO_PATTERN(s.val) /\ ~TIME_ISO_PATTERN(s.val)
                /\ DATETIME_ISO_PATTERN(s.val) -> Temporal("DateTime", s.val)
           [] ~DATE_ISO_PATTERN(s.val) /\ ~TIME_ISO_PATTERN(s.val)
                /\ ~DATETIME_ISO_PATTERN(s.val) /\ DURATION_ISO_PATTERN(s.val) ->
                    Temporal("Duration", s.val)
           [] OTHER -> JoltDecodeError

\* hydrate_point(srid, *v) of neo4j/types/spatial.py
hydrate_point(srid, v) ==
    IF IsIterable(v) THEN Point(srid, Unpack(v)) ELSE TypeError

_spatial_hook(srid, content) ==
    IF content.kind # "map" THEN AttributeError
    ELSE IF content.val = <<>> THEN JoltDecodeError
    ELSE IF content.val[1][1] = <<"P", "O", "I", "N", "T">>
         THEN hydrate_point(srid, content.val[1][2])
         ELSE JoltDecodeError

_graph_hook(g, graph0) ==
    LET graph1 == IF graph0 = "None" THEN "Graph" ELSE graph0
    IN  IF g.kind = "map" THEN Ret(None, graph1)
        ELSE IF g.kind \in {"list", "str", "bytes", "point"} THEN Ret(None, graph1)
        ELSE Ret(JoltDecodeError, graph1)

\* the test len(o) == 1 left out: the first entry decides
_object_hook_first(o, graph0) ==
    IF Len(o.val) >= 1
    THEN LET k == o.val[1][1]
             v == o.val[1][2]
         IN  CASE k = <<"Z">> -> Ret(int(v), graph0)
               [] k = <<"R">> -> Ret(float(v), graph0)
               [] k = <<"T">> -> Ret(_temporal_hook(v), graph0)
               [] k # <<>> /\ k[1] = "@" ->
                     LET srid == ParseInt(Tail(k))
                     IN  IF IsError(srid) THEN Ret(srid, graph0)
                         ELSE Ret(_spatial_hook(srid.val, v), graph0)
               [] k = <<"#">> -> Ret(HexBytes(v), graph0)
               [] k = <<"{", "}">> -> Ret(dict(v), graph0)
               [] k = <<"G">> -> _graph_hook(v, graph0)
               [] OTHER -> Ret(o, graph0)
    ELSE Ret(o, graph0)

_object_hook(o, graph0) ==
    IF Len(o.val) = 1
    THEN LET k == o.val[1][1]
             v == o.val[1][2]
         IN  CASE k = <<"Z">> -> Ret(int(v), graph0)
               [] k = <<"R">> -> Ret(float(v), graph0)
               [] k = <<"T">> -> Ret(_temporal_hook(v), graph0)
               [] k # <<>> /\ k[1] = "@" ->
                     LET srid == ParseInt(Tail(k))
                     IN  IF IsError(srid) THEN Ret(srid, graph0)
                         ELSE Ret(_spatial_hook(srid.val, v), graph0)
               [] k = <<"#">> -> Ret(HexBytes(v), graph0)
               [] k = <<"{", "}">> -> Ret(dict(v), graph0)
               [] k = <<"G">> -> _graph_hook(v, graph0)
               [] OTHER -> Ret(o, graph0)
    ELSE Ret(o, graph0)

\* json.decoder of the standard library: a number without fraction is an int
JSONNumber(s) ==
    IF s \in {<<"N", "a", "N">>, <<"I", "n", "f", "i", "n", "i", "t", "y">>,
              <<"-", "I", "n", "f", "i", "n", "i", "t", "y">>} \/ DotAt(s) # 0
    THEN ParseFloat(s)
    ELSE ParseInt(s)

\* JSONDecoder.decode: the parser of the standard library, which calls the
\* object hook on every object once its members are parsed
RECURSIVE Parse(_, _)
RECURSIVE ParseItems(_, _, _)

\* the members of an array or object, left to right, until one raises
ParseItems(ds, acc, graph0) ==
    IF ds = <<>> THEN Ret(List(acc), graph0)
    ELSE LET r == Parse(Head(ds), graph0)
         IN  IF IsError(r.val) THEN r ELSE ParseItems(Tail(ds), Append(acc, r.val), r.graph)

RECURSIVE DictOfPairs(_, _, _)
DictOfPairs(ks, vs, acc) ==
    IF ks = <<>> THEN acc
    ELSE DictOfPairs(Tail(ks), Tail(vs), Update(acc, Head(ks), Head(vs)))

Parse(d, graph0) ==
    CASE d.kind = "jnull" -> Ret(None, graph0)
      [] d.kind = "jtrue" -> Ret(PyBool(TRUE), graph0)
      [] d.kind = "jfalse" -> Ret(PyBool(FALSE), graph0)
      [] d.kind = "jnum" -> Ret(JSONNumber(d.val), graph0)
      [] d.kind = "jstr" -> Ret(PyStr(d.val), graph0)
      [] d.kind = "jarr" ->
            ParseItems(d.val, <<>>, graph0)
      [] d.kind = "jobj" ->
            LET r == ParseItems([i \in 1..Len(d.val) |-> d.val[i][2]], <<>>, graph0)
            IN  IF IsError(r.val) THEN r
                ELSE _object_hook(Dict(DictOfPairs([i \in 1..Len(d.val) |-> d.val[i][1]],
                                                   r.val.val, <<>>)), r.graph)

decode(d, graph0) == Parse(d, graph0)

(***************************************************************************)
(* Inputs: the values handed to the encoder.                               *)
(***************************************************************************)
MaxDepth == 2

MaxLen == 2

MaxPathLen == 3

\* ints around both ends of the band, and far outside it
Ints ==
    {Big(-(2^24), 0), Big(-(2^15) - 1, Base - 2), Big(-(2^15) - 1, Base - 1), Z_LO,
     Big(-(2^15), 1), Small(0), Big(-1, Base - 1), Small(1), Small(1999),
     Big(2^15 - 1, Base - 2), Z_HI, Big(2^15, 0), Big(2^15, 1), Big(2^24, 0)}

Floats ==
    {NaN, POSITIVE_INFINITY, NEGATIVE_INFINITY,
     Fin(FALSE, Small(0), <<"0">>), Fin(TRUE, Small(0), <<"0">>),
     Fin(FALSE, Small(1), <<"0">>), Fin(TRUE, Small(1), <<"0">>),
     Fin(FALSE, Small(1), <<"5">>), Fin(FALSE, Small(12), <<"3", "4">>),
     Fin(FALSE, Z_HI, <<"0">>), Fin(FALSE, Z_HI, <<"5">>), Fin(FALSE, Big(2^15, 0), <<"0">>),
     Fin(TRUE, Big(2^15, 0), <<"0">>), Fin(TRUE, Big(2^15, 0), <<"5">>),
     Fin(TRUE, Big(2^15, 1), <<"0">>), Fin(FALSE, Big(2^24, 0), <<"0">>)}

Strings == {<<>>, <<"h", "i">>, <<"5">>, <<"0", "F">>}

ByteArrays == {<<>>, <<15, 16, 17>>, <<0, 255>>}

Temporals ==
    {Temporal("Date", <<"2", "0", "1", "6", "-", "0", "6", "-", "2", "3">>),
     Temporal("Time", <<"1", "2", ":", "3", "4", ":", "5", "6", ".", "7", "8", "9">>),
     Temporal("DateTime", <<"2", "0", "1", "6", "-", "0", "6", "-", "2", "3", "T",
                            "1", "2", ":", "3", "4", ":", "5", "6", ".", "0">>),
     Temporal("Duration", <<"P", "1", "D", "T", "2", "H">>)}

Points ==
    {Point(Small(4326), <<PyFloat(Fin(FALSE, Small(12), <<"3", "4">>)),
                          PyFloat(Fin(FALSE, Small(56), <<"7", "8">>))>>),
     Point(Small(7203), <<PyFloat(Fin(FALSE, Small(1), <<"0">>)),
                          PyFloat(Fin(TRUE, Small(2), <<"0">>))>>),
     Point(Small(9157), <<PyFloat(Fin(FALSE, Small(1), <<"5">>)),
                          PyFloat(Fin(FALSE, Small(0), <<"0">>)),
                          PyFloat(Fin(FALSE, Big(2^15, 0), <<"0">>))>>)}

\* the graph of the test suite: nodes 1..4, relationships 7 (1->2), 8 (3->2),
\* 9 (3->4), and besides them 10 (2->1) and 11 (4->4)
NodeA == Node(Small(1), << <<"P">> >>, << <<(<<"n">>), PyStr(<<"A">>)>> >>)

NodeB ==
    Node(Small(2), << <<"P">> >>,
         << <<(<<"n">>), PyStr(<<"B">>)>>,
            <<(<<"d">>), Temporal("Date", <<"1", "9", "7", "0", "-", "0", "1", "-", "0", "1">>)>> >>)

NodeC == Node(Small(3), <<>>, <<>>)

NodeD ==
    Node(Small(4), << <<"P">>, <<"Q">> >>,
         << <<(<<"k">>), Dict(<< <<(<<"x">>), PyFloat(Fin(FALSE, Small(1), <<"5">>))>> >>)>> >>)

Nodes == {NodeA, NodeB, NodeC, NodeD}

Relationships ==
    {Relationship(Small(7), <<"K">>, << <<(<<"s">>), PyInt(Small(1999))>> >>, NodeA, NodeB),
     Relationship(Small(8), <<"K">>, <<>>, NodeC, NodeB),
     Relationship(Small(9), <<"K">>, <<>>, NodeC, NodeD),
     Relationship(Small(10), <<"L">>,
                  << <<(<<"a">>), PyInt(Big(2^15, 0))>>, <<(<<"b">>), List(<<>>)>> >>,
                  NodeB, NodeA),
     Relationship(Small(11), <<"L">>, <<>>, NodeD, NodeD)}

\* the node a walk stands on after following r from node n
OtherEnd(r, n) == IF r.val.start_node = n THEN r.val.end_node ELSE r.val.start_node

Incident(r, n) == r.val.start_node = n \/ r.val.end_node = n

\* the walks of k relationships, each with the node it ends on
RECURSIVE Walks(_)
Walks(k) ==
    IF k = 0 THEN {[start |-> n, rels |-> <<>>, at |-> n] : n \in Nodes}
    ELSE {[start |-> w.start, rels |-> Append(w.rels, r), at |-> OtherEnd(r, w.at)] :
            <<w, r>> \in {x \in Walks(k - 1) \X Relationships : Incident(x[2], x[1].at)}}

Paths == UNION {{Path(w.start, w.rels) : w \in Walks(k)} : k \in 1..MaxPathLen}

Scalars ==
    {None, PyBool(TRUE), PyBool(FALSE)} \cup {PyInt(n) : n \in Ints}
    \cup {PyFloat(x) : x \in Floats} \cup {PyStr(s) : s \in Strings}
    \cup {ByteArray(b) : b \in ByteArrays} \cup Temporals \cup Points

\* the values put inside lists and maps
Elements ==
    {None, PyBool(TRUE), PyInt(Small(1)), PyInt(Big(2^15, 0)), PyInt(Z_LO),
     PyFloat(Fin(FALSE, Small(1), <<"0">>)), PyFloat(Fin(FALSE, Small(1), <<"5">>)),
     PyStr(<<"5">>), PyStr(<<"0", "F">>), ByteArray(<<15, 16, 17>>),
     Temporal("Date", <<"2", "0", "1", "6", "-", "0", "6", "-", "2", "3">>),
     Point(Small(4326), <<PyFloat(Fin(FALSE, Small(12), <<"3", "4">>)),
                          PyFloat(Fin(FALSE, Small(56), <<"7", "8">>))>>),
     NodeA}

Filler == PyInt(Small(2))

\* the keys of maps: plain keys, then every sigil
MapKeys ==
    << <<"o", "n", "e">>, <<"t", "w", "o">>, <<"Z">>, <<"R">>, <<"T">>, <<"#">>, <<"{", "}">>,
       <<"G">>, <<"@", "4", "3", "2", "6">> >>

KeyAt(i) == MapKeys[((i - 1) % Len(MapKeys)) + 1]

\* lists of at most MaxLen elements: one of them from E, the others Filler
ListsOver(E) ==
    {List(<<>>)}
    \cup {List([i \in 1..n |-> IF i = q THEN x ELSE Filler]) :
            <<n, q, x>> \in {t \in (1..MaxLen) \X (1..MaxLen) \X E : t[2] <= t[1]}}

\* maps of one entry under the keys at the places os of MapKeys, and of
\* 2..MaxLen entries under the keys that follow "one" and "Z", one value from E
\* and the others Filler
MapsOver(E, os) ==
    {Dict(<<>>)}
    \cup {Dict(<< <<KeyAt(o), x>> >>) : <<o, x>> \in os \X E}
    \cup {Dict([i \in 1..n |-> <<KeyAt(o + i - 1), IF i = q THEN x ELSE Filler>>]) :
            <<o, n, q, x>> \in {t \in {1, 3} \X (2..MaxLen) \X (1..MaxLen) \X E : t[3] <= t[2]}}

\* one-entry maps take every key around an element, and the keys "one", "Z"
\* and "{}" around a container
RECURSIVE Containers(_)
Containers(d) ==
    IF d = 0 THEN Elements
    ELSE LET E == Containers(d - 1)
         IN  E \cup ListsOver(E)
               \cup MapsOver(Elements, 1..Len(MapKeys)) \cup MapsOver(E, {1, 3, 7})

Values == Scalars \cup Nodes \cup Relationships \cup Paths \cup Containers(MaxDepth)

(***************************************************************************)
(* Inputs: the JSON texts handed to the decoder directly.                  *)
(***************************************************************************)
TextKeys ==
    {<<"o", "n", "e">>, <<"Z">>, <<"R">>, <<"T">>, <<"#">>, <<"{", "}">>, <<"G">>,
     <<"@", "4", "3", "2", "6">>, <<"@", "a", "b", "c">>, <<"@">>, <<"(", ")">>,
     <<"-", ">">>, <<"-", "-">>, <<"P", "O", "I", "N", "T">>}

TextPayloads ==
    {JNull, JTrue, JNum(<<"1">>), JNum(<<"-", "5">>), JNum(<<"1", ".", "5">>),
     JStr(<<>>), JStr(<<"5">>), JStr(<<"-", "2", "1", "4", "7", "4", "8", "3", "6", "4", "9">>),
     JStr(<<"1", ".", "5">>), JStr(<<"N", "a", "N">>), JStr(<<"0", "F">>),
     JStr(<<"0", "f", "1">>), JStr(<<"Z", "Z">>),
     JStr(<<"2", "0", "1", "6", "-", "0", "6", "-", "2", "3">>),
     JArr(<<>>), JArr(<<JNum(<<"1", ".", "5">>), JNum(<<"2", ".", "5">>)>>),
     JArr(<<JObj(<<>>), JObj(<<>>), JArr(<<JStr(<<"1">>)>>)>>),
     JObj(<<>>), JObj(<< <<(<<"o", "n", "e">>), JNum(<<"1">>)>> >>),
     JObj(<< <<(<<"P", "O", "I", "N", "T">>),
               JArr(<<JNum(<<"1", ".", "5">>), JNum(<<"2", ".", "5">>)>>)>> >>),
     JObj(<< <<(<<"1">>), JArr(<<JArr(<<JStr(<<"P">>)>>), JObj(<<>>)>>)>> >>),
     JObj(<< <<(<<"a">>), JNum(<<"1">>)>>, <<(<<"b">>), JNum(<<"2">>)>> >>),
     JStr(<<"a", "b">>), JStr(<<" ", "5">>),
     JObj(<< <<(<<"1", "2">>),
               JArr(<<JStr(<<"K">>), JObj(<<>>), JStr(<<"1">>), JStr(<<"2">>)>>)>> >>),
     JObj(<< <<(<<"P", "O", "I", "N", "T">>),
               JArr(<<JNum(<<"1", ".", "5">>), JNum(<<"2", ".", "5">>)>>)>>,
             <<(<<"x">>), JNum(<<"1">>)>> >>)}

Extra == <<(<<"x">>), JNum(<<"1">>)>>

\* objects of no, one and two entries (dup: the same key twice), bare, inside
\* an array and inside {}
Texts ==
    LET one == {JObj(<< <<k, p>> >>) : <<k, p>> \in TextKeys \X TextPayloads}
        two == {JObj(<< <<k, p>>, Extra >>) : <<k, p>> \in TextKeys \X TextPayloads}
               \cup {JObj(<< Extra, <<k, p>> >>) : <<k, p>> \in TextKeys \X TextPayloads}
        dup == {JObj(<< <<k, JStr(<<"5">>)>>, <<k, JStr(<<"7">>)>> >>) : k \in TextKeys}
    IN  {JObj(<<>>)} \cup TextPayloads \cup one \cup two \cup dup
        \cup {JArr(<<d>>) : d \in one}
        \cup {JObj(<< <<(<<"{", "}">>), d>> >>) : d \in one}

(***************************************************************************)
(* neo4j.http: HTTPSession.  A URI is a Python str held as a sequence of   *)
(* pieces, or None.  The session is a record of its attributes;            *)
(* transaction is the attribute of the base class Session, True here when  *)
(* a Transaction is held.  A result is a record of the attributes of       *)
(* HTTPStatementResult, and a result loader is the place of its result in  *)
(* results.  The server is that of the transactional HTTP endpoint: it     *)
(* answers 201 with a Location to a POST on the begin URI and 200 to a     *)
(* POST elsewhere, or fails.                                               *)
(***************************************************************************)
MaxRuns == 2

MaxPosts == 2

TX_URI == PyStr(<<"http://localhost:7474/db/data/transaction">>)

\* "%s/commit" % uri
CommitOf(uri) == PyStr(uri.val \o <<"/commit">>)

\* HTTPSession.__init__
HTTPSession(uri) ==
    [transaction |-> FALSE,
     begin_uri |-> uri,
     autocommit_uri |-> CommitOf(uri),
     sync_uri |-> CommitOf(uri),
     transaction_uri |-> None,
     commit_uri |-> None,
     _statements |-> <<>>,
     _result_loaders |-> <<>>]

\* dict(parameters or {}, **kwparameters)
RECURSIVE UpdateAll(_, _)
UpdateAll(m, items) ==
    IF items = <<>> THEN m
    ELSE UpdateAll(Update(m, Head(items)[1], Head(items)[2]), Tail(items))

\* the dict parameters laid over the keyword parameters
Parameters_dictwins(parameters, kwparameters) ==
    Dict(UpdateAll(kwparameters.val,
                   IF parameters = None \/ parameters.val = <<>> THEN <<>> ELSE parameters.val))

Parameters(parameters, kwparameters) ==
    Dict(UpdateAll(IF parameters = None \/ parameters.val = <<>> THEN <<>> ELSE parameters.val,
                   kwparameters.val))

\* the OrderedDict that run appends to _statements
Statement(statement, parameters, kwparameters) ==
    Dict(<< <<(<<"statement">>), PyStr(statement)>>,
            <<(<<"parameters">>), Parameters(parameters, kwparameters)>>,
            <<(<<"resultDataContents">>), List(<<PyStr(<<"REST">>)>>)>> >>)

\* HTTPStatementResult(session, result_loader): attached to the session, no
\* keys and no records yet
HTTPStatementResult == [_session |-> "session", _keys |-> None, _records |-> <<>>]

\* StatementResult.online
online(r) == r._session # "None"

\* run: the session and the results after the call
run(s, rs, statement, parameters, kwparameters) ==
    [session |-> [s EXCEPT !._statements =
                               Append(@, Statement(statement, parameters, kwparameters)),
                           !._result_loaders = Append(@, Len(rs) + 1)],
     results |-> Append(rs, HTTPStatementResult)]

\* load(result) of HTTPStatementResult.__init__
load(r, res) ==
    [_session |-> "None", _keys |-> res.columns, _records |-> r._records \o res.data]

\* fail() of HTTPStatementResult.__init__
fail(r) == [r EXCEPT !._session = "None"]

\* every result loaded with the first entry
Loaded_first(loaders, rs, content) ==
    [j \in 1..Len(rs) |->
        IF \E i \in 1..Len(loaders) : loaders[i] = j
        THEN LET i == CHOOSE i \in 1..Len(loaders) : loaders[i] = j
             IN  IF i <= Len(content) THEN load(rs[j], content[1]) ELSE fail(rs[j])
        ELSE rs[j]]

\* the loop of sync over the result loaders: each result loaded with the entry
\* of its place, or failed on IndexError
Loaded(loaders, rs, content) ==
    [j \in 1..Len(rs) |->
        IF \E i \in 1..Len(loaders) : loaders[i] = j
        THEN LET i == CHOOSE i \in 1..Len(loaders) : loaders[i] = j
             IN  IF i <= Len(content) THEN load(rs[j], content[i]) ELSE fail(rs[j])
        ELSE rs[j]]

RECURSIVE Count(_, _, _, _)
Count(loaders, rs, content, i) ==
    IF i > Len(loaders) \/ i > Len(content) THEN 0
    ELSE Len(load(rs[loaders[i]], content[i])._records) + Count(loaders, rs, content, i + 1)

\* the URIs switched on every 2xx answer
sync_2xx(s, rs, resp) ==
    LET cleared == [s EXCEPT !._statements = <<>>, !._result_loaders = <<>>]
    IN  CASE resp.kind = "exception" ->
                [session |-> cleared, results |-> rs, raised |-> "ConnectionError", value |-> None]
          [] resp.kind = "response" /\ resp.status \div 100 # 2 ->
                [session |-> cleared, results |-> rs, raised |-> "ProtocolError", value |-> None]
          [] resp.kind = "response" /\ resp.status \div 100 = 2 ->
                LET s1 == IF resp.status \div 100 = 2
                          THEN [cleared EXCEPT !.transaction_uri = resp.location,
                                               !.commit_uri = CommitOf(resp.location),
                                               !.sync_uri = resp.location]
                          ELSE cleared
                IN  IF resp.content = None
                    THEN [session |-> s1, results |-> rs, raised |-> "ValueError", value |-> None]
                    ELSE IF resp.content.kind = "map"
                    THEN [session |-> s1, results |-> rs, raised |-> "KeyError", value |-> None]
                    ELSE [session |-> s1,
                          results |-> Loaded(s._result_loaders, rs, resp.content.val),
                          raised |-> "None",
                          value |-> PyInt(Small(Count(s._result_loaders, rs, resp.content.val, 1)))]

\* the statements left in the queue
sync_keep(s, rs, resp) ==
    LET cleared == [s EXCEPT !._result_loaders = <<>>]
    IN  CASE resp.kind = "exception" ->
                [session |-> cleared, results |-> rs, raised |-> "ConnectionError", value |-> None]
          [] resp.kind = "response" /\ resp.status \div 100 # 2 ->
                [session |-> cleared, results |-> rs, raised |-> "ProtocolError", value |-> None]
          [] resp.kind = "response" /\ resp.status \div 100 = 2 ->
                LET s1 == IF resp.status = 201
                          THEN [cleared EXCEPT !.transaction_uri = resp.location,
                                               !.commit_uri = CommitOf(resp.location),
                                               !.sync_uri = resp.location]
                          ELSE cleared
                IN  IF resp.content = None
                    THEN [session |-> s1, results |-> rs, raised |-> "ValueError", value |-> None]
                    ELSE IF resp.content.kind = "map"
                    THEN [session |-> s1, results |-> rs, raised |-> "KeyError", value |-> None]
                    ELSE [session |-> s1,
                          results |-> Loaded(s._result_loaders, rs, resp.content.val),
                          raised |-> "None",
                          value |-> PyInt(Small(Count(s._result_loaders, rs, resp.content.val, 1)))]

\* sync, given the answer to its POST: the session and the results after the
\* call, the exception raised or "None", and the count returned
sync(s, rs, resp) ==
    LET cleared == [s EXCEPT !._statements = <<>>, !._result_loaders = <<>>]
    IN  CASE resp.kind = "exception" ->
                [session |-> cleared, results |-> rs, raised |-> "ConnectionError", value |-> None]
          [] resp.kind = "response" /\ resp.status \div 100 # 2 ->
                [session |-> cleared, results |-> rs, raised |-> "ProtocolError", value |-> None]
          [] resp.kind = "response" /\ resp.status \div 100 = 2 ->
                LET s1 == IF resp.status = 201
                          THEN [cleared EXCEPT !.transaction_uri = resp.location,
                                               !.commit_uri = CommitOf(resp.location),
                                               !.sync_uri = resp.location]
                          ELSE cleared
                IN  IF resp.content = None
                    THEN [session |-> s1, results |-> rs, raised |-> "ValueError", value |-> None]
                    ELSE IF resp.content.kind = "map"
                    THEN [session |-> s1, results |-> rs, raised |-> "KeyError", value |-> None]
                    ELSE [session |-> s1,
                          results |-> Loaded(s._result_loaders, rs, resp.content.val),
                          raised |-> "None",
                          value |-> PyInt(Small(Count(s._result_loaders, rs, resp.content.val, 1)))]

\* sync_uri not switched
begin_transaction_same_uri(s) ==
    IF s.transaction
    THEN [session |-> s, raised |-> "TransactionError"]
    ELSE [session |-> [s EXCEPT !.transaction = TRUE], raised |-> "None"]

\* Session.begin_transaction of the base class, then the switch of sync_uri
begin_transaction(s) ==
    IF s.transaction
    THEN [session |-> s, raised |-> "TransactionError"]
    ELSE [session |-> [s EXCEPT !.transaction = TRUE, !.sync_uri = s.begin_uri],
          raised |-> "None"]

\* x or y, for URIs
Or(x, y) == IF x = None \/ x.val = <<>> THEN y ELSE x

\* sync_uri left as it is
Finally_sync_uri(s) == [s EXCEPT !.commit_uri = None, !.transaction_uri = None]

\* the finally clause of commit_transaction and rollback_transaction
Finally(s) ==
    [s EXCEPT !.commit_uri = None, !.transaction_uri = None, !.sync_uri = s.autocommit_uri]

\* the session as commit_transaction hands it to sync
Committing(s) == [s EXCEPT !.transaction = FALSE, !.sync_uri = Or(s.commit_uri, s.autocommit_uri)]

\* commit_transaction of a session that holds a transaction, given the answer
\* to the POST of its sync
commit_transaction(s, rs, resp) ==
    LET r == sync(Committing(s), rs, resp)
    IN  [session |-> Finally(r.session), results |-> r.results, raised |-> r.raised,
         value |-> None]

\* rollback_transaction of a session that holds a transaction; deleted tells
\* whether the DELETE, when one is sent, returns
rollback_transaction(s, deleted) ==
    [session |-> Finally([s EXCEPT !.transaction = FALSE]),
     raised |-> IF s.transaction_uri # None /\ s.transaction_uri.val # <<>> /\ ~deleted
                THEN "ConnectionError" ELSE "None"]

\* the server: the transactions it has opened, the POSTs of sync it has had and
\* its last answer to a POST
Server == [txs |-> 0, posts |-> 0, answer |-> None]

Row == List(<<PyInt(Small(1))>>)

\* an entry of "results" in the body of a response: no row, or two rows
ResultEntries ==
    {[columns |-> List(<<PyStr(<<"n">>)>>), data |-> <<>>],
     [columns |-> List(<<PyStr(<<"n">>)>>), data |-> <<Row, Row>>]}

\* the bodies of a 2xx response to n statements: no JSON at all (None), an
\* object without "errors" and "results", or results for the first k statements
Contents(n) ==
    {None, Dict(<<>>)} \cup {List(c) : c \in UNION {[1..k -> ResultEntries] : k \in 0..n}}

\* the answers to a POST of n statements on uri
Responses(uri, n) ==
    {[kind |-> "exception", status |-> 0, location |-> None, content |-> None],
     [kind |-> "response", status |-> 404, location |-> None, content |-> None]}
    \cup {[kind |-> "response",
           status |-> IF uri = TX_URI THEN 201 ELSE 200,
           location |-> IF uri = TX_URI
                        THEN PyStr(TX_URI.val \o <<"/">> \o IntStr(Small(server.txs + 1)))
                        ELSE None,
           content |-> c] : c \in Contents(n)}

Served(resp) ==
    [txs |-> IF resp.kind = "response" /\ resp.status = 201 THEN server.txs + 1 ELSE server.txs,
     posts |-> server.posts + 1,
     answer |-> resp]

\* the calls of run: statement, parameters, kwparameters; every call has a
\* statement of its own
RunInputs ==
    {<< <<"RETURN 1">>, None, Dict(<<>>) >>,
     << <<"RETURN $x AS x">>, Dict(<< <<(<<"x">>), PyInt(Small(1))>> >>),
        Dict(<< <<(<<"x">>), PyInt(Small(2))>> >>) >>,
     << <<"RETURN $x, $y">>, Dict(<< <<(<<"x">>), PyInt(Small(1))>> >>),
        Dict(<< <<(<<"y">>), PyInt(Small(2))>> >>) >>}

(***************************************************************************)
(* The codec as a state machine: a caller holds a value and encodes it     *)
(* (jolt_dumps), or holds a text; a JoltDecoder then decodes the text      *)
(* (jolt_loads).                                                           *)
(***************************************************************************)
Absent == [kind |-> "absent", val |-> <<>>]

Init ==
    /\ \/ value \in Values /\ always_safe \in BOOLEAN /\ doc = Absent /\ pc = "value"
       \/ value = Absent /\ always_safe = FALSE /\ doc \in Texts /\ pc = "text"
    /\ result = Absent
    /\ graph = "None"
    /\ session = HTTPSession(TX_URI) /\ results = <<>> /\ request = None
    /\ ret = None /\ server = Server

\* JoltEncoder.encode
Encode ==
    /\ pc = "value"
    /\ doc' = encode(always_safe, value)
    /\ pc' = "text"
    /\ UNCHANGED <<value, always_safe, result, graph, hvars>>

\* JoltDecoder.decode
Decode ==
    /\ pc = "text"
    /\ LET r == decode(doc, graph)
       IN  result' = r.val /\ graph' = r.graph
    /\ pc' = "done"
    /\ UNCHANGED <<value, always_safe, doc, hvars>>

\* the texts of a second call of decode on the same JoltDecoder
AgainTexts ==
    {JNum(<<"1">>), JObj(<< <<(<<"o", "n", "e">>), JNum(<<"1">>)>> >>),
     JObj(<< <<(<<"G">>), JObj(<<>>)>> >>), JObj(<< <<(<<"Z">>), JStr(<<"Z", "Z">>)>> >>)}

\* JoltDecoder.decode, called again on the decoder that has decoded a text
DecodeAgain ==
    /\ pc = "done" /\ value = Absent
    /\ \E d \in AgainTexts :
          /\ doc' = d
          /\ LET r == decode(d, graph)
             IN  result' = r.val /\ graph' = r.graph
    /\ pc' = "again"
    /\ UNCHANGED <<value, always_safe, hvars>>

Next == Encode \/ Decode \/ DecodeAgain

Spec == Init /\ [][Next]_vars

(***************************************************************************)
(* The HTTP session as a state machine: a caller holds a session just      *)
(* constructed and calls its methods in any order.                         *)
(***************************************************************************)
Outcome(op, raised, v) == [op |-> op, raised |-> raised, value |-> v]

POST(uri, statements) == [method |-> "POST", uri |-> uri, statements |-> statements]

DELETE(uri) == [method |-> "DELETE", uri |-> uri, statements |-> <<>>]

HTTPInit ==
    /\ session = HTTPSession(TX_URI) /\ results = <<>> /\ request = None
    /\ ret = None /\ server = Server
    /\ value = Absent /\ always_safe = FALSE /\ doc = Absent /\ result = Absent
    /\ graph = "None" /\ pc = "http"

\* HTTPSession.run
Run ==
    /\ Len(results) < MaxRuns
    /\ \E in \in RunInputs :
          LET r == run(session, results, in[1], in[2], in[3])
          IN  /\ session' = r.session /\ results' = r.results
              /\ ret' = Outcome("run", "None", PyInt(Small(Len(r.results))))
    /\ UNCHANGED <<request, server, jvars>>

\* HTTPSession.sync
Sync ==
    /\ server.posts < MaxPosts
    /\ \E resp \in Responses(session.sync_uri, Len(session._statements)) :
          LET r == sync(session, results, resp)
          IN  /\ session' = r.session /\ results' = r.results
              /\ ret' = Outcome("sync", r.raised, r.value)
              /\ request' = POST(session.sync_uri, session._statements)
              /\ server' = Served(resp)
    /\ UNCHANGED jvars

\* HTTPSession.fetch: return self.sync()
Fetch ==
    /\ server.posts < MaxPosts
    /\ \E resp \in Responses(session.sync_uri, Len(session._statements)) :
          LET r == sync(session, results, resp)
          IN  /\ session' = r.session /\ results' = r.results
              /\ ret' = Outcome("fetch", r.raised, r.value)
              /\ request' = POST(session.sync_uri, session._statements)
              /\ server' = Served(resp)
    /\ UNCHANGED jvars

\* HTTPSession.begin_transaction
BeginTransaction ==
    /\ LET r == begin_transaction(session)
       IN  session' = r.session /\ ret' = Outcome("begin_transaction", r.raised, None)
    /\ UNCHANGED <<results, request, server, jvars>>

\* HTTPSession.commit_transaction
CommitTransaction ==
    /\ IF ~session.transaction
       THEN /\ ret' = Outcome("commit_transaction", "TransactionError", None)
            /\ UNCHANGED <<session, results, request, server>>
       ELSE \E resp \in Responses(Committing(session).sync_uri, Len(session._statements)) :
               LET r == commit_transaction(session, results, resp)
               IN  /\ session' = r.session /\ results' = r.results
                   /\ ret' = Outcome("commit_transaction", r.raised, None)
                   /\ request' = POST(Committing(session).sync_uri, session._statements)
                   /\ server' = [Served(resp) EXCEPT !.posts = server.posts]
    /\ UNCHANGED jvars

\* HTTPSession.rollback_transaction
RollbackTransaction ==
    /\ IF ~session.transaction
       THEN /\ ret' = Outcome("rollback_transaction", "TransactionError", None)
            /\ UNCHANGED <<session, results, request, server>>
       ELSE \E deleted \in BOOLEAN :
               LET r == rollback_transaction(session, deleted)
               IN  /\ session' = r.session
                   /\ ret' = Outcome("rollback_transaction", r.raised, None)
                   /\ request' = IF Or(session.transaction_uri, None) # None
                                 THEN DELETE(session.transaction_uri) ELSE request
                   /\ UNCHANGED <<results, server>>
    /\ UNCHANGED jvars

HTTPNext ==
    Run \/ Sync \/ Fetch \/ BeginTransaction \/ CommitTransaction \/ RollbackTransaction

HTTPSpec == HTTPInit /\ [][HTTPNext]_vars

(***************************************************************************)
(* Properties.  Equality of values is structural: an int never equals a    *)
(* float, NaN equals NaN, and dicts are equal when they hold the same      *)
(* entries in the same order.                                              *)
(***************************************************************************)
Encoded == value # Absent /\ pc \in {"text", "done"}

Decoded == pc = "done"

TwoTo31 == Big(2^15, 0)

\* -2^31 <= n <= 2^31 - 1
InSafeBand(n) == IntLeq(IntNeg(TwoTo31), n) /\ IntLess(n, TwoTo31)

ZForm(n) == JObj(<< <<(<<"Z">>), JStr(IntStr(n))>> >>)

RForm(s) == JObj(<< <<(<<"R">>), JStr(s)>> >>)

\* the object that holds the entries of an encoded dict: the text itself, or
\* what its {} wrapper holds
Bodies(d) ==
    {d} \cup (IF d.kind = "jobj" /\ Len(d.val) = 1 /\ d.val[1][1] = <<"{", "}">>
              THEN {d.val[1][2]} ELSE {})

SameKeys(v, b) ==
    b.kind = "jobj" /\ Len(b.val) = Len(v.val) /\ \A i \in 1..Len(v.val) : b.val[i][1] = v.val[i][1]

\* C1: decoding the text that encoding a value produced gives the value back.
C1_RoundTrip == (Decoded /\ value # Absent) => result = value

\* every int inside v, at any depth of lists and dicts, is printed in d bare
\* when it lies in the band and under Z otherwise
RECURSIVE IntsByBand(_, _)
IntsByBand(v, d) ==
    CASE v.kind = "int" ->
            IF InSafeBand(v.val) THEN d = JNum(IntStr(v.val)) ELSE d = ZForm(v.val)
      [] v.kind = "list" ->
            d.kind = "jarr" /\ Len(d.val) = Len(v.val)
            /\ \A i \in 1..Len(v.val) : IntsByBand(v.val[i], d.val[i])
      [] v.kind = "map" ->
            \E b \in Bodies(d) :
                SameKeys(v, b) /\ \A i \in 1..Len(v.val) : IntsByBand(v.val[i][2], b.val[i][2])
      [] OTHER -> TRUE

\* C2: with always_safe off an int is emitted bare iff -2^31 <= n <= 2^31-1 and
\* as {"Z": "<decimal>"} otherwise, at any depth inside lists and maps.
C2_IntBareIffInBand == (Encoded /\ ~always_safe) => IntsByBand(value, doc)

\* an int just outside the band, inside a map inside a list, has been encoded
C2_Witness ==
    /\ Encoded /\ ~always_safe /\ value.kind = "list"
    /\ \E i \in 1..Len(value.val) :
          /\ value.val[i].kind = "map"
          /\ \E j \in 1..Len(value.val[i].val) : value.val[i].val[j][2] = PyInt(TwoTo31)

\* |n| > 2^31 - 1
AbsAboveBand(n) == IntLeq(TwoTo31, n) \/ IntLeq(n, IntNeg(TwoTo31))

\* C3 as stated: every int n with |n| > 2^31-1 is emitted as {"Z": "<decimal>"}.
C3_AbsAboveIsZ == (Encoded /\ value.kind = "int" /\ AbsAboveBand(value.val)) => doc = ZForm(value.val)

\* C3, amended: every int n with n > 2^31-1 or n < -2^31 is emitted as
\* {"Z": "<decimal of n>"}; -2^31 itself is emitted bare.
C3_OutsideBandIsZ ==
    (Encoded /\ value.kind = "int")
        => /\ ~InSafeBand(value.val) => doc = ZForm(value.val)
           /\ (value.val = IntNeg(TwoTo31) /\ ~always_safe) => doc = JNum(IntStr(value.val))

\* the ints next to both limits have been encoded
C3_Witness ==
    /\ Encoded /\ ~always_safe /\ value.kind = "int"
    /\ value.val \in {Big(-(2^15) - 1, Base - 1), TwoTo31}

\* the value of an integer-valued float
WholeOf(x) == IF x.neg THEN IntNeg(x.whole) ELSE x.whole

\* C4: with always_safe off a float is emitted as {"R": "NaN"}, {"R": "Infinity"}
\* or {"R": "-Infinity"} when not finite, as {"R": "<decimal>"} when integer-valued
\* and in the band, and as a bare number in every other case.
C4_FloatForms ==
    (Encoded /\ ~always_safe /\ value.kind = "float")
        => LET x == value.val
           IN  CASE x.cls = "nan" -> doc = RForm(<<"N", "a", "N">>)
                 [] x.cls = "inf" -> doc = RForm(<<"I", "n", "f", "i", "n", "i", "t", "y">>)
                 [] x.cls = "ninf" -> doc = RForm(<<"-", "I", "n", "f", "i", "n", "i", "t", "y">>)
                 [] OTHER ->
                       IF x.frac = <<"0">> /\ InSafeBand(WholeOf(x))
                       THEN doc = RForm(FloatStr(x))
                       ELSE doc = JNum(FloatStr(x))

\* a whole float just above the band has been encoded
C4_Witness ==
    Encoded /\ ~always_safe /\ value = PyFloat(Fin(FALSE, TwoTo31, <<"0">>))

\* every dict inside v, at any depth of lists and dicts, is printed in d under
\* {} when it has one entry and as a plain object otherwise
RECURSIVE MapsBySize(_, _)
MapsBySize(v, d) ==
    CASE v.kind = "list" ->
            d.kind = "jarr" /\ Len(d.val) = Len(v.val)
            /\ \A i \in 1..Len(v.val) : MapsBySize(v.val[i], d.val[i])
      [] v.kind = "map" ->
            LET wrapped == d.kind = "jobj" /\ Len(d.val) = 1 /\ d.val[1][1] = <<"{", "}">>
                b == IF Len(v.val) = 1 /\ wrapped THEN d.val[1][2] ELSE d
            IN  /\ Len(v.val) = 1 => wrapped
                /\ SameKeys(v, b)
                /\ \A i \in 1..Len(v.val) : MapsBySize(v.val[i][2], b.val[i][2])
      [] OTHER -> TRUE

\* C5: with always_safe off a map is wrapped as {"{}": {k: v}} iff it has
\* exactly one entry, whatever its key, at any depth inside lists and maps.
C5_MapWrappedIffSingleton == (Encoded /\ ~always_safe) => MapsBySize(value, doc)

\* a one-entry map under a plain key, nested in a two-entry map, has been encoded
C5_Witness ==
    /\ Encoded /\ ~always_safe /\ value.kind = "map" /\ Len(value.val) = 2
    /\ \E i \in 1..2 : value.val[i][2].kind = "map" /\ Len(value.val[i][2].val) = 1
          /\ value.val[i][2].val[1][1] = <<"o", "n", "e">>

\* the keys the decoder reads as sigils: Z R T # {} G and @<digits>
IsSigil(k) ==
    \/ k \in {<<"Z">>, <<"R">>, <<"T">>, <<"#">>, <<"{", "}">>, <<"G">>}
    \/ Len(k) > 1 /\ k[1] = "@" /\ AllDigits(Tail(k))

Wrapped(d) == d.kind = "jobj" /\ Len(d.val) = 1 /\ d.val[1][1] = <<"{", "}">>

\* C6: a one-entry map under a sigil-shaped key is encoded inside the {} sigil
\* and decoding that text gives the same one-entry map back, for every payload
\* (every payload that round-trips by itself).
C6_SingletonSigilMapRoundTrip ==
    (Decoded /\ value.kind = "map" /\ Len(value.val) = 1 /\ IsSigil(value.val[1][1])
       /\ decode(encode(always_safe, value.val[1][2]), "None").val = value.val[1][2])
        => Wrapped(doc) /\ result = value

RECURSIVE AllSigil(_, _, _)

\* the raw object P holds the properties props, each value in sigil form
PropsSigil(props, P, strict) ==
    /\ P.kind = "jobj" /\ Len(P.val) = Len(props)
    /\ \A i \in 1..Len(props) :
          P.val[i][1] = props[i][1] /\ AllSigil(props[i][2], P.val[i][2], strict)

\* the entry of an element table for id, or no entry
EntryOf(table, id) ==
    IF table.kind = "jobj" /\ IntStr(id) \in Keys(table.val)
    THEN Get(table.val, IntStr(id)) ELSE JNull

IsG(d) == d.kind = "jobj" /\ Len(d.val) = 1 /\ d.val[1][1] = <<"G">>

\* every int, float and dict of v is printed in d in its sigil form; with
\* strict, the coordinates of a point too, and without it they are bare numbers
AllSigil(v, d, strict) ==
    CASE v.kind = "int" -> d = ZForm(v.val)
      [] v.kind = "float" ->
            d = RForm(CASE v.val.cls = "nan" -> <<"N", "a", "N">>
                        [] v.val.cls = "inf" -> <<"I", "n", "f", "i", "n", "i", "t", "y">>
                        [] v.val.cls = "ninf" -> <<"-", "I", "n", "f", "i", "n", "i", "t", "y">>
                        [] OTHER -> FloatStr(v.val))
      [] v.kind = "list" ->
            d.kind = "jarr" /\ Len(d.val) = Len(v.val)
            /\ \A i \in 1..Len(v.val) : AllSigil(v.val[i], d.val[i], strict)
      [] v.kind = "map" ->
            Wrapped(d) /\ PropsSigil(v.val, d.val[1][2], strict)
      [] v.kind = "point" ->
            /\ d.kind = "jobj" /\ Len(d.val) = 1 /\ d.val[1][1] = <<"@">> \o IntStr(v.val.srid)
            /\ LET c == d.val[1][2]
               IN  /\ c.kind = "jobj" /\ Len(c.val) = 1 /\ c.val[1][1] = <<"P", "O", "I", "N", "T">>
                   /\ c.val[1][2].kind = "jarr" /\ Len(c.val[1][2].val) = Len(v.val.coords)
                   /\ \A i \in 1..Len(v.val.coords) :
                         IF strict THEN AllSigil(v.val.coords[i], c.val[1][2].val[i], strict)
                         ELSE c.val[1][2].val[i] = JNum(JSONFloatStr(v.val.coords[i].val))
      [] v.kind = "node" ->
            IsG(d) /\ LET e == EntryOf(d.val[1][2], v.val.id)
                      IN  e.kind = "jarr" /\ Len(e.val) = 2 /\ PropsSigil(v.val.props, e.val[2], strict)
      [] v.kind = "rel" ->
            IsG(d) /\ LET e == EntryOf(d.val[1][2], v.val.id)
                      IN  e.kind = "jarr" /\ Len(e.val) = 4 /\ PropsSigil(v.val.props, e.val[2], strict)
      [] v.kind = "path" ->
            /\ IsG(d) /\ d.val[1][2].kind = "jarr" /\ Len(d.val[1][2].val) = 3
            /\ \A i \in 1..Len(v.val.relationships) :
                  LET r == v.val.relationships[i]
                      e == EntryOf(d.val[1][2].val[2], r.val.id)
                  IN  /\ e.kind = "jarr" /\ Len(e.val) = 4 /\ PropsSigil(r.val.props, e.val[2], strict)
                      /\ \A n \in {r.val.start_node, r.val.end_node} :
                            LET f == EntryOf(d.val[1][2].val[1], n.val.id)
                            IN  f.kind = "jarr" /\ Len(f.val) = 2
                                /\ PropsSigil(n.val.props, f.val[2], strict)
      [] OTHER -> TRUE

\* C7 as stated: in always_safe mode every int, float and map anywhere in the
\* value, the coordinates of points included, is emitted in its sigil form.
C7_AllSigilWithCoordinates == (Encoded /\ always_safe) => AllSigil(value, doc, TRUE)

\* C7, amended: in always_safe mode every int, float and map at top level, in
\* list elements, in map values and in the property values of nodes and
\* relationships is emitted in its sigil form (Z, R, {}); the coordinates of a
\* point are emitted as bare numbers.
C7_AllSigilButCoordinates == (Encoded /\ always_safe) => AllSigil(value, doc, FALSE)

\* a list holding a point and an int of the safe band has been encoded in
\* always_safe mode
C7_Witness ==
    /\ Encoded /\ always_safe /\ value.kind = "list"
    /\ \E i \in 1..Len(value.val) : value.val[i].kind = "point"
    /\ \E i \in 1..Len(value.val) : value.val[i].kind = "int" /\ InSafeBand(value.val[i].val)

\* a text that is one object whose members decode without error, and the
\* dict json builds of its members
TextObject ==
    /\ value = Absent /\ doc.kind = "jobj"
    /\ \A i \in 1..Len(doc.val) : ~IsError(decode(doc.val[i][2], "None").val)

MemberDict ==
    DictOfPairs([i \in 1..Len(doc.val) |-> doc.val[i][1]],
                [i \in 1..Len(doc.val) |-> decode(doc.val[i][2], "None").val], <<>>)

PathEncoded == Encoded /\ value.kind = "path"

NODES == doc.val[1][2].val[1]

RELS == doc.val[1][2].val[2]

SEQ == doc.val[1][2].val[3]

\* C9: a path of start node v0 and relationships r1..rk is encoded with a sequence
\* of k+1 entries, str(v0.id) then str(r1.id) .. str(rk.id), and with the nodes
\* of the walk that goes from the current node to r's end node when the current
\* node is r's start node and to r's start node otherwise.
C9_PathSequenceAndWalk ==
    PathEncoded
        => LET rels == value.val.relationships
               k == Len(rels)
           IN  /\ IsG(doc) /\ doc.val[1][2].kind = "jarr" /\ Len(doc.val[1][2].val) = 3
               /\ SEQ = JArr([i \in 1..(k + 1) |->
                                JStr(IntStr(IF i = 1 THEN value.val.start_node.val.id
                                            ELSE rels[i - 1].val.id))])
               /\ \E walk \in [1..(k + 1) -> Nodes] :
                     /\ walk[1] = value.val.start_node
                     /\ \A i \in 1..k :
                           walk[i + 1] = IF walk[i] = rels[i].val.start_node
                                         THEN rels[i].val.end_node ELSE rels[i].val.start_node
                     /\ Keys(NODES.val) = {IntStr(walk[i].val.id) : i \in 1..(k + 1)}

\* the path 1 -> 2 <- 3 -> 4 over relationships 7, 8, 9 has been encoded
C9_Witness ==
    /\ PathEncoded /\ value.val.start_node = NodeA
    /\ [i \in 1..Len(value.val.relationships) |-> value.val.relationships[i].val.id]
          = <<Small(7), Small(8), Small(9)>>

\* C10: in an encoded path SEQ[0] is a key of NODES, every later entry of SEQ a
\* key of RELS, every node the walk visits a key of NODES, and every id is a key
\* exactly once, also when the path visits a node or relationship again.
C10_PathIdsInTables ==
    PathEncoded
        => LET rels == value.val.relationships
               visited == {value.val.start_node}
                          \cup {rels[i].val.start_node : i \in 1..Len(rels)}
                          \cup {rels[i].val.end_node : i \in 1..Len(rels)}
           IN  /\ SEQ.val[1].val \in Keys(NODES.val)
               /\ \A i \in 2..Len(SEQ.val) : SEQ.val[i].val \in Keys(RELS.val)
               /\ \A n \in visited : IntStr(n.val.id) \in Keys(NODES.val)
               /\ Cardinality(Keys(NODES.val)) = Len(NODES.val)
               /\ Cardinality(Keys(RELS.val)) = Len(RELS.val)
               /\ Keys(RELS.val) = {IntStr(rels[i].val.id) : i \in 1..Len(rels)}

\* a path that follows the same relationship twice, back to its start node, has
\* been encoded
C10_Witness ==
    /\ PathEncoded /\ Len(value.val.relationships) >= 2
    /\ value.val.relationships[1] = value.val.relationships[2]
    /\ value.val.relationships[1].val.start_node # value.val.relationships[1].val.end_node

\* the raw object of the properties props: the same keys in the same order,
\* each value encoded as it would be on its own
PropsRaw(props) ==
    JObj([i \in 1..Len(props) |-> <<props[i][1], encode(always_safe, props[i][2])>>])

\* C11: the properties of a node or relationship in a G payload, standalone or
\* in the element tables of a path, are a raw JSON object, never wrapped in {},
\* also when there is one property and in always_safe mode; the property values
\* are encoded by the ordinary rules.
C11_PropertiesRaw ==
    /\ (Encoded /\ value.kind = "node")
          => IsG(doc) /\ EntryOf(doc.val[1][2], value.val.id).kind = "jarr"
               /\ EntryOf(doc.val[1][2], value.val.id).val[2] = PropsRaw(value.val.props)
    /\ (Encoded /\ value.kind = "rel")
          => IsG(doc) /\ EntryOf(doc.val[1][2], value.val.id).kind = "jarr"
               /\ EntryOf(doc.val[1][2], value.val.id).val[2] = PropsRaw(value.val.props)
    /\ PathEncoded
          => \A i \in 1..Len(value.val.relationships) :
                LET r == value.val.relationships[i]
                IN  /\ EntryOf(RELS, r.val.id).kind = "jarr"
                    /\ EntryOf(RELS, r.val.id).val[2] = PropsRaw(r.val.props)
                    /\ \A n \in {r.val.start_node, r.val.end_node} :
                          /\ EntryOf(NODES, n.val.id).kind = "jarr"
                          /\ EntryOf(NODES, n.val.id).val[2] = PropsRaw(n.val.props)

\* a node of one property, whose value is a one-entry map, has been encoded in
\* always_safe mode
C11_Witness ==
    /\ Encoded /\ always_safe /\ value.kind = "node" /\ Len(value.val.props) = 1
    /\ value.val.props[1][2].kind = "map"

\* a text of one object of one entry under key k has been decoded
OneEntry(k) ==
    Decoded /\ value = Absent /\ doc.kind = "jobj" /\ Len(doc.val) = 1 /\ doc.val[1][1] = k

\* the payload of that entry as the hook receives it
SigilPayload == decode(doc.val[1][2], "None").val

\* C12: decoding {"G": v}, v an object of one element entry ([labels,
\* properties] or [type, properties, start, end]), puts the element into the
\* decoder's graph and returns it.
C12_ElementDecoded ==
    (OneEntry(<<"G">>) /\ doc.val[1][2].kind = "jobj" /\ Len(doc.val[1][2].val) = 1
       /\ doc.val[1][2].val[1][2].kind = "jarr"
       /\ Len(doc.val[1][2].val[1][2].val) \in {2, 4})
        => /\ graph = "Graph"
           /\ result.kind = (IF Len(doc.val[1][2].val[1][2].val) = 2 THEN "node" ELSE "rel")

\* C13: decoding {"G": v} raises whenever v is neither an object nor an array
\* of three entries.
C13_OtherGraphPayloadRejected ==
    (OneEntry(<<"G">>) /\ ~IsError(SigilPayload) /\ SigilPayload.kind # "map"
       /\ ~(SigilPayload.kind = "list" /\ Len(SigilPayload.val) = 3))
        => IsError(result)

\* some object of the text reaches the hook as one entry under G
RECURSIVE HasG(_)
HasG(d) ==
    CASE d.kind = "jarr" -> \E i \in 1..Len(d.val) : HasG(d.val[i])
      [] d.kind = "jobj" ->
            \/ {d.val[i][1] : i \in 1..Len(d.val)} = {<<"G">>}
            \/ \E i \in 1..Len(d.val) : HasG(d.val[i][2])
      [] OTHER -> FALSE

\* C14: every call of decode starts without a graph, whatever an earlier call
\* on the same decoder did, so that the graph exists at the end of a call only
\* if this call met a G object.
C14_GraphOnlyOfThisCall ==
    (pc \in {"done", "again"} /\ value = Absent /\ graph = "Graph") => HasG(doc)

\* C15: a one-entry object under a reserved sigil, "()", "->" or "--", is
\* rejected: the decode raises, and gives neither null nor a one-entry map.
C15_ReservedSigilRejected ==
    ((OneEntry(<<"(", ")">>) \/ OneEntry(<<"-", ">">>) \/ OneEntry(<<"-", "-">>))
       /\ ~IsError(SigilPayload))
        => IsError(result)

\* C16: decoding {"#": v}, v a string, gives the octets of the pairs of hex
\* digits of v, and raises when v has odd length or a character that is no hex
\* digit.
C16_HexPairsOrError ==
    (OneEntry(<<"#">>) /\ doc.val[1][2].kind = "jstr")
        => LET v == doc.val[1][2].val
           IN  IF Len(v) % 2 = 0 /\ \A i \in 1..Len(v) : IsHex(v[i])
               THEN result = ByteArray([i \in 1..(Len(v) \div 2) |->
                                          16 * HexVal(v[2 * i - 1]) + HexVal(v[2 * i])])
               ELSE IsError(result)

\* a string of an optional sign and one or more decimal digits
SignedDecimal(s) ==
    /\ s # <<>>
    /\ LET body == IF Head(s) \in {"+", "-"} THEN Tail(s) ELSE s
       IN  body # <<>> /\ AllDigits(body)

\* C17: decoding {"Z": v} gives the int written in v when v is a string of an
\* optional sign and decimal digits, and raises for every other payload.
C17_SignedDecimalOrError ==
    OneEntry(<<"Z">>)
        => IF doc.val[1][2].kind = "jstr" /\ SignedDecimal(doc.val[1][2].val)
           THEN result = ParseInt(doc.val[1][2].val)
           ELSE IsError(result)

\* C18: a one-entry object whose key starts with "@" becomes a point only when
\* the rest of the key is digits and the payload is a one-entry object under
\* "POINT"; otherwise the decode raises JoltDecodeError.
C18_PointOrJoltDecodeError ==
    (Decoded /\ value = Absent /\ doc.kind = "jobj" /\ Len(doc.val) = 1
       /\ doc.val[1][1] # <<>> /\ doc.val[1][1][1] = "@" /\ ~IsError(SigilPayload))
        => LET k == doc.val[1][1]
               p == doc.val[1][2]
               good == /\ Len(k) > 1 /\ AllDigits(Tail(k))
                       /\ p.kind = "jobj" /\ Len(p.val) = 1
                       /\ p.val[1][1] = <<"P", "O", "I", "N", "T">>
           IN  /\ result.kind = "point" => good
               /\ ~good => result = JoltDecodeError

\* C19: a session that holds no transaction, just constructed or after a
\* commit_transaction or rollback_transaction that returned or raised, has
\* sync_uri = autocommit_uri = begin_uri + "/commit" and neither a
\* transaction_uri nor a commit_uri.
C19_IdleSessionURIs ==
    (pc = "http" /\ ~session.transaction)
        => /\ session.sync_uri = session.autocommit_uri
           /\ session.autocommit_uri = PyStr(session.begin_uri.val \o <<"/commit">>)
           /\ session.transaction_uri = None
           /\ session.commit_uri = None

\* commit_transaction has raised after its POST on the commit URI of a
\* transaction the server had opened
C19_Witness ==
    /\ pc = "http" /\ ret # None /\ ret.op = "commit_transaction"
    /\ ret.raised = "ProtocolError" /\ ~session.transaction
    /\ request.method = "POST" /\ request.uri # session.autocommit_uri

\* the parameters of a call of run: every keyword parameter, and every dict
\* parameter whose key is no keyword
Overridden(parameters, kwparameters, m) ==
    LET p == IF parameters = None THEN <<>> ELSE parameters.val
    IN  /\ Keys(m) = Keys(p) \cup Keys(kwparameters.val)
        /\ Cardinality(Keys(m)) = Len(m)
        /\ \A k \in Keys(m) :
              Get(m, k) = IF k \in Keys(kwparameters.val) THEN Get(kwparameters.val, k)
                          ELSE Get(p, k)

\* C20: run sends nothing: it appends one statement, of the given text and of
\* the dict parameters overridden by the keyword parameters, to the tail of the
\* queue, leaves the statements queued before and every URI as they were, and
\* returns a result that is online and has no records.
C20_RunOnlyEnqueues ==
    [][Run =>
        LET old == session._statements
            new == session'._statements
            last == new[Len(new)]
            in == CHOOSE i \in RunInputs : PyStr(i[1]) = Get(last.val, <<"statement">>)
            res == results'[ret'.value.val.lo]
        IN  /\ request' = request /\ server' = server
            /\ Len(new) = Len(old) + 1 /\ SubSeq(new, 1, Len(old)) = old
            /\ Overridden(in[2], in[3], Get(last.val, <<"parameters">>).val)
            /\ [session' EXCEPT !._statements = old, !._result_loaders = session._result_loaders]
                  = session
            /\ ret'.raised = "None" /\ online(res) /\ res._records = <<>>
            /\ SubSeq(results', 1, Len(results)) = results]_vars

\* run has been called with x given both as a dict and as a keyword parameter,
\* on a session that had a statement queued
C20_Witness ==
    /\ pc = "http" /\ ret # None /\ ret.op = "run" /\ Len(session._statements) = 2
    /\ Get(session._statements[2].val, <<"parameters">>)
          = Dict(<< <<(<<"x">>), PyInt(Small(2))>> >>)

C22_SyncSwitchesOnlyOn201 ==
    [][(Sync \/ Fetch)
          => LET a == server'.answer
             IN  /\ IF a.kind = "response" /\ a.status = 201
                    THEN /\ session'.transaction_uri = a.location
                         /\ session'.commit_uri = PyStr(a.location.val \o <<"/commit">>)
                         /\ session'.sync_uri = session'.transaction_uri
                    ELSE /\ session'.sync_uri = session.sync_uri
                         /\ session'.transaction_uri = session.transaction_uri
                         /\ session'.commit_uri = session.commit_uri
                 /\ (session.transaction /\ session.transaction_uri # None)
                       => request'.uri = session.transaction_uri
                 /\ ~session.transaction => session'.sync_uri = session.autocommit_uri]_vars

\* a sync in a transaction has been answered 201 and the session has switched
\* to the Location
C22_Witness ==
    /\ pc = "http" /\ ret # None /\ ret.op = "sync" /\ server.answer.status = 201
    /\ session.transaction_uri = server.answer.location
    /\ session.sync_uri = session.transaction_uri

\* C23: however sync ends (a 2xx answer, ProtocolError on another answer, an
\* exception of the request or of reading the answer), the statement queue and
\* the result-loader queue are empty after it, so that a sync that follows a
\* sync posts no statement again.
C23_QueuesEmptyAfterSync ==
    /\ []((pc = "http" /\ ret # None /\ ret.op \in {"sync", "fetch"})
            => session._statements = <<>> /\ session._result_loaders = <<>>)
    /\ [][((Sync \/ Fetch) /\ ret # None /\ ret.op \in {"sync", "fetch"})
            => request'.statements = <<>>]_vars

\* a sync that posted two statements has raised on an answer without "errors"
C23_Witness ==
    /\ pc = "http" /\ ret # None /\ ret.op = "sync" /\ ret.raised = "KeyError"
    /\ Len(request.statements) = 2 /\ session._statements = <<>>

\* C24: a statement run in a transaction and not synced when
\* rollback_transaction is called is never posted afterwards: the statement
\* queue is empty after rollback_transaction.
C24_RollbackEmptiesQueue ==
    (pc = "http" /\ ret # None /\ ret.op = "rollback_transaction"
       /\ ret.raised # "TransactionError")
        => session._statements = <<>>

\* the rows of the first n entries of a response
RECURSIVE SumData(_, _)
SumData(c, n) == IF n = 0 THEN 0 ELSE Len(c[n].data) + SumData(c, n - 1)

\* C25: on a 2xx answer with results, the result of the i-th run since the last
\* sync is loaded with the i-th entry of the results, a result without an entry
\* is failed, none of them is online afterwards, and sync returns the sum of
\* the record counts of the loaded results.
C25_ResultsLoadedInOrder ==
    [][((Sync \/ Fetch) /\ ret'.raised = "None")
          => LET c == server'.answer.content.val
                 L == session._result_loaders
                 n == IF Len(L) <= Len(c) THEN Len(L) ELSE Len(c)
             IN  /\ \A i \in 1..Len(L) :
                       LET old == results[L[i]]
                           new == results'[L[i]]
                       IN  /\ L[i] = Len(results) - Len(L) + i
                           /\ ~online(new)
                           /\ IF i <= Len(c)
                              THEN /\ new._keys = c[i].columns
                                   /\ new._records = old._records \o c[i].data
                              ELSE new._keys = old._keys /\ new._records = old._records
                 /\ Len(results') = Len(results)
                 /\ \A j \in 1..(Len(results) - Len(L)) : results'[j] = results[j]
                 /\ ret'.value = PyInt(Small(SumData(c, n)))]_vars

\* a sync of two statements has been answered with one entry of two rows: the
\* first result is loaded, the second failed, and sync has returned 2
C25_Witness ==
    /\ pc = "http" /\ ret # None /\ ret.op = "sync" /\ ret.raised = "None"
    /\ Len(request.statements) = 2 /\ Len(results) = 2
    /\ results[1]._records = <<Row, Row>> /\ ~online(results[1])
    /\ results[2]._keys = None /\ ~online(results[2])
    /\ ret.value = PyInt(Small(2))

====
